---- MODULE Spec2Model ----
(***************************************************************************)
(* Model of wad-rs (src/src/lib.rs): the WAD directory loader              *)
(* Wad::from_file_path and the LumpName conversions from_string and        *)
(* to_string.                                                              *)
(*                                                                         *)
(* Bytes are integers 0..255.  A file is a sequence of bytes.  A Rust      *)
(* String is modelled as the sequence of its Unicode scalar values; its    *)
(* as_bytes() is the UTF-8 encoding of that sequence.  A u64 is four       *)
(* 16-bit limbs, least significant first, so that the arithmetic of line   *)
(* 115 keeps its 64-bit width.  The target is little-endian (the packed    *)
(* structs are read in native byte order).                                 *)
(***************************************************************************)
EXTENDS Integers, Sequences, FiniteSets, TLC

VARIABLES
    fileExists,   \* whether File::open succeeds on the path
    orig,         \* the archive as written, before any truncation
    file,         \* the bytes of the file at the path
    pc,           \* position inside from_file_path / the caller
    sig,          \* raw_header.signature
    count,        \* raw_header.count (i32)
    dir_loc,      \* raw_header.dir_loc (i32)
    i,            \* loop variable of line 112
    wad,          \* wad.directory, the local being assembled
    result,       \* value returned by from_file_path
    reads,        \* number of read_exact_at calls made so far
    s,            \* argument of LumpName::from_string
    nameRes,      \* value returned by LumpName::from_string
    text          \* value returned by LumpName::to_string

vars == <<fileExists, orig, file, pc, sig, count, dir_loc, i, wad, result, reads,
          s, nameRes, text>>

----------------------------------------------------------------------------
(* Sizes fixed by the program *)

HEADER_SIZE == 12

ENTRY_SIZE == 16

NAME_LEN == 8

(* Bounds of the model *)

MaxNameBytes == 10

MaxRecords == 2

MaxPayload == 1

I32_MAX == 2147483647

I32_MIN == (-2147483647) - 1

----------------------------------------------------------------------------
(* Sequences *)



Min(a, b) == IF a < b THEN a ELSE b

RECURSIVE Flatten(_)
Flatten(ss) == IF ss = <<>> THEN <<>> ELSE Head(ss) \o Flatten(Tail(ss))

----------------------------------------------------------------------------
(* Little-endian i32 fields of the packed structs *)

LE32(b) ==
    b[1] + 256 * b[2] + 65536 * b[3]
         + 16777216 * (IF b[4] >= 128 THEN b[4] - 256 ELSE b[4])

EncLE32(v) ==
    << v % 256, (v \div 256) % 256, (v \div 65536) % 256,
       (v \div 16777216) % 256 >>

----------------------------------------------------------------------------
(* u64 arithmetic on four 16-bit limbs *)

LIMB == 65536

AsU64(v) ==
    << v % LIMB, (v \div LIMB) % LIMB,
       IF v < 0 THEN LIMB - 1 ELSE 0, IF v < 0 THEN LIMB - 1 ELSE 0 >>

MulU64(x, m) ==
    LET p1 == x[1] * m
        p2 == x[2] * m + (p1 \div LIMB)
        p3 == x[3] * m + (p2 \div LIMB)
        p4 == x[4] * m + (p3 \div LIMB)
    IN  [val |-> << p1 % LIMB, p2 % LIMB, p3 % LIMB, p4 % LIMB >>,
         overflow |-> p4 \div LIMB > 0]

AddU64(x, y) ==
    LET a1 == x[1] + y[1]
        a2 == x[2] + y[2] + (a1 \div LIMB)
        a3 == x[3] + y[3] + (a2 \div LIMB)
        a4 == x[4] + y[4] + (a3 \div LIMB)
    IN  [val |-> << a1 % LIMB, a2 % LIMB, a3 % LIMB, a4 % LIMB >>,
         overflow |-> a4 \div LIMB > 0]

LtU64(x, y) ==
    \/ x[4] < y[4]
    \/ x[4] = y[4] /\ x[3] < y[3]
    \/ x[4] = y[4] /\ x[3] = y[3] /\ x[2] < y[2]
    \/ x[4] = y[4] /\ x[3] = y[3] /\ x[2] = y[2] /\ x[1] < y[1]

----------------------------------------------------------------------------
(* UTF-8 *)

REPLACEMENT == 65533

IsCont(b) == b >= 128 /\ b <= 191

EncodeChar(c) ==
    IF c < 128 THEN << c >>
    ELSE IF c < 2048 THEN << 192 + (c \div 64), 128 + (c % 64) >>
    ELSE IF c < 65536 THEN
        << 224 + (c \div 4096), 128 + ((c \div 64) % 64), 128 + (c % 64) >>
    ELSE
        << 240 + (c \div 262144), 128 + ((c \div 4096) % 64),
           128 + ((c \div 64) % 64), 128 + (c % 64) >>

RECURSIVE as_bytes(_)
as_bytes(str) ==
    IF str = <<>> THEN <<>> ELSE EncodeChar(Head(str)) \o as_bytes(Tail(str))

(* Range allowed for the second byte of a sequence led by b. *)
SecondOk(b, c) ==
    CASE b = 224 -> c >= 160 /\ c <= 191
      [] b = 237 -> c >= 128 /\ c <= 159
      [] b = 240 -> c >= 144 /\ c <= 191
      [] b = 244 -> c >= 128 /\ c <= 143
      [] OTHER   -> IsCont(c)

Width(b) ==
    IF b < 128 THEN 1
    ELSE IF b >= 194 /\ b <= 223 THEN 2
    ELSE IF b >= 224 /\ b <= 239 THEN 3
    ELSE IF b >= 240 /\ b <= 244 THEN 4
    ELSE 0

(* One step of the lossy decoder at the head of b: the char produced and *)
(* the number of bytes consumed.                                          *)
DecodeStep(b) ==
    LET w == Width(b[1])
        n == Len(b)
    IN  IF w = 1 THEN [ch |-> b[1], used |-> 1]
        ELSE IF w = 0 THEN [ch |-> REPLACEMENT, used |-> 1]
        ELSE IF n < 2 \/ ~SecondOk(b[1], b[2])
             THEN [ch |-> REPLACEMENT, used |-> 1]
        ELSE IF w = 2
             THEN [ch |-> (b[1] - 192) * 64 + (b[2] - 128), used |-> 2]
        ELSE IF n < 3 \/ ~IsCont(b[3])
             THEN [ch |-> REPLACEMENT, used |-> 2]
        ELSE IF w = 3
             THEN [ch |-> (b[1] - 224) * 4096 + (b[2] - 128) * 64
                           + (b[3] - 128), used |-> 3]
        ELSE IF n < 4 \/ ~IsCont(b[4])
             THEN [ch |-> REPLACEMENT, used |-> 3]
        ELSE [ch |-> (b[1] - 240) * 262144 + (b[2] - 128) * 4096
                      + (b[3] - 128) * 64 + (b[4] - 128), used |-> 4]

RECURSIVE from_utf8_lossy(_)
from_utf8_lossy(b) ==
    IF b = <<>> THEN <<>>
    ELSE LET d == DecodeStep(b)
         IN  << d.ch >> \o from_utf8_lossy(SubSeq(b, d.used + 1, Len(b)))

RECURSIVE trim_start_matches(_, _)
trim_start_matches(str, c) ==
    IF str # <<>> /\ Head(str) = c THEN trim_start_matches(Tail(str), c)
    ELSE str

RECURSIVE trim_end_matches(_, _)
trim_end_matches(str, c) ==
    IF str # <<>> /\ str[Len(str)] = c
    THEN trim_end_matches(SubSeq(str, 1, Len(str) - 1), c)
    ELSE str

trim_matches(str, c) == trim_end_matches(trim_start_matches(str, c), c)

----------------------------------------------------------------------------
(* LumpName *)

(* Variant: the length test counts characters. *)
TooLargeChars(str) == Len(str) > NAME_LEN

(* str.len() > 8 *)
TooLarge(str) == Len(as_bytes(str)) > NAME_LEN

(* let mut buf = [0; 8]; w.write(str.as_bytes()) *)
WriteBuf(str) ==
    LET b == as_bytes(str)
        n == Min(Len(b), NAME_LEN)
    IN  [j \in 1..NAME_LEN |-> IF j <= n THEN b[j] ELSE 0]

from_string(str) ==
    IF TooLarge(str) THEN [ok |-> FALSE, err |-> "TooLarge", buf |-> <<>>]
    ELSE [ok |-> TRUE, err |-> "", buf |-> WriteBuf(str)]

(* Variant: the decoded text is returned without trimming. *)
to_string_untrimmed(buf) == from_utf8_lossy(buf)

to_string(buf) == trim_matches(from_utf8_lossy(buf), 0)

----------------------------------------------------------------------------
(* Wad::from_file_path *)

NoResult == [tag |-> "none", err |-> "", directory |-> <<>>]

Ok(w) == [tag |-> "Ok", err |-> "", directory |-> w]

Err(e) == [tag |-> "Err", err |-> e, directory |-> <<>>]

NoText == [set |-> FALSE, buf |-> <<>>, val |-> <<>>]

NoName == [set |-> FALSE, ok |-> FALSE, err |-> "", buf |-> <<>>]

(* Variant: a plain read, which leaves the rest of the buffer zero. *)
ReadShort(f, n) ==
    [ok |-> TRUE,
     buf |-> [j \in 1..n |-> IF j <= Len(f) THEN f[j] ELSE 0]]

(* fin.read_exact(&mut raw_header): the cursor is at 0 *)
ReadExact(f, n) ==
    IF Len(f) >= n THEN [ok |-> TRUE, buf |-> SubSeq(f, 1, n)]
    ELSE [ok |-> FALSE, buf |-> <<>>]

(* Variant: a plain read_at, which accepts a short read inside the file. *)
ReadAtShort(f, off, n) ==
    LET small == off[4] = 0 /\ off[3] = 0 /\ off[2] < 32768
        pos == off[1] + LIMB * off[2]
    IN  IF small /\ pos < Len(f)
        THEN [ok |-> TRUE,
              buf |-> [j \in 1..n |->
                         IF pos + j <= Len(f) THEN f[pos + j] ELSE 0]]
        ELSE [ok |-> FALSE, buf |-> <<>>]

(* fin.read_exact_at(&mut entry_buf, off): pread at a 64-bit offset; an *)
(* offset at or beyond 2^31 is beyond the end of every file modelled.    *)
ReadExactAt(f, off, n) ==
    LET small == off[4] = 0 /\ off[3] = 0 /\ off[2] < 32768
        pos == off[1] + LIMB * off[2]
    IN  IF small /\ pos <= Len(f) - n
        THEN [ok |-> TRUE, buf |-> SubSeq(f, pos + 1, pos + n)]
        ELSE [ok |-> FALSE, buf |-> <<>>]

(* RawHeader { signature: [u8; 4], count: i32, dir_loc: i32 } *)
DecodeHeader(buf) ==
    [signature |-> SubSeq(buf, 1, 4),
     count |-> LE32(SubSeq(buf, 5, 8)),
     dir_loc |-> LE32(SubSeq(buf, 9, 12))]

(* Variant: real_size is left at zero. *)
DecodeEntryNoRealSize(buf) ==
    [start |-> LE32(SubSeq(buf, 1, 4)),
     size |-> LE32(SubSeq(buf, 5, 8)),
     real_size |-> 0,
     kind |-> 0,
     compression |-> 0,
     padding |-> 0,
     name |-> SubSeq(buf, 9, 16)]

(* RawEntry { file_pos: i32, size: i32, name: [u8; 8] } to Entry *)
DecodeEntry(buf) ==
    [start |-> LE32(SubSeq(buf, 1, 4)),
     size |-> LE32(SubSeq(buf, 5, 8)),
     real_size |-> LE32(SubSeq(buf, 5, 8)),
     kind |-> 0,
     compression |-> 0,
     padding |-> 0,
     name |-> SubSeq(buf, 9, 16)]

(* Variant: the loop runs over the magnitude of count. *)
LoopBoundAbs(c) ==
    IF c = I32_MIN THEN << 0, 32768, 0, 0 >>
    ELSE AsU64(IF c < 0 THEN -c ELSE c)

(* raw_header.count as u64 *)
LoopBound(c) == AsU64(c)

(* Variant: records are taken to be 12 bytes apart. *)
EntryOffsetStride12(k, d) ==
    LET m == MulU64(AsU64(k), HEADER_SIZE)
        a == AddU64(m.val, AsU64(d))
    IN  [val |-> a.val, overflow |-> m.overflow \/ a.overflow]

(* Variant: the offset is that of the record after record k. *)
EntryOffsetNext(k, d) ==
    LET m == MulU64(AsU64(k + 1), ENTRY_SIZE)
        a == AddU64(m.val, AsU64(d))
    IN  [val |-> a.val, overflow |-> m.overflow \/ a.overflow]

(* i * ENTRY_SIZE as u64 + (raw_header.dir_loc as u64) *)
EntryOffset(k, d) ==
    LET m == MulU64(AsU64(k), ENTRY_SIZE)
        a == AddU64(m.val, AsU64(d))
    IN  [val |-> a.val, overflow |-> m.overflow \/ a.overflow]

(* Variant: a failed read ends the loop and the entries read are kept. *)
OnReadErrorBreak(w) == Ok(w)

(* .map_err(|err| WadDecodeError::FailedToReadDirectory(err))? *)
OnReadError(w) == Err("FailedToReadDirectory")

(* .map_err(|err| WadDecodeError::FailedToReadHeader(err))? *)
OnHeaderError(f) == Err("FailedToReadHeader")

----------------------------------------------------------------------------
(* Files the loader is run on *)

SIGNATURE == << 73, 87, 65, 68 >>

(* Three directory records: a plain one, one whose name starts with and *)
(* contains NUL, one with extreme field values and a full 8-byte name   *)
(* holding an invalid UTF-8 byte.                                       *)
RecordSet ==
    { [file_pos |-> 12, size |-> 4,
       name |-> << 69, 49, 77, 49, 0, 0, 0, 0 >>],
      [file_pos |-> -1, size |-> 16909060,
       name |-> << 0, 65, 0, 66, 0, 0, 0, 0 >>],
      [file_pos |-> I32_MAX, size |-> I32_MIN,
       name |-> << 65, 66, 255, 67, 195, 169, 70, 71 >>] }

EncodeRecord(r) == EncLE32(r.file_pos) \o EncLE32(r.size) \o r.name

RecordSeqs == UNION { [1..n -> RecordSet] : n \in 0..MaxRecords }

CountSet == { I32_MIN, -1, I32_MAX } \cup (0..(MaxRecords + 1))

DirLocSet ==
    { I32_MIN, -16, -1, 0, I32_MAX }
    \cup { HEADER_SIZE + p : p \in 0..MaxPayload }
    \cup { HEADER_SIZE + ENTRY_SIZE + p : p \in 0..MaxPayload }

Payload(p) == [j \in 1..p |-> 170]

Archive(c, d, p, recs) ==
    SIGNATURE \o EncLE32(c) \o EncLE32(d) \o Payload(p)
      \o Flatten([j \in 1..Len(recs) |-> EncodeRecord(recs[j])])

Archives ==
    { Archive(c, d, p, recs) :
        c \in CountSet, d \in DirLocSet, p \in 0..MaxPayload,
        recs \in RecordSeqs }

----------------------------------------------------------------------------
(* Strings LumpName::from_string is called on *)

CharSet == { 0, 65, 233, 8364, 128512 }

Extend(S) ==
    S \cup { Append(t, c) : t \in
               { u \in S : Len(as_bytes(u)) < MaxNameBytes }, c \in CharSet }

RECURSIVE StringsOfChars(_)
StringsOfChars(n) == IF n = 0 THEN { <<>> } ELSE Extend(StringsOfChars(n - 1))

Strings ==
    { t \in StringsOfChars(MaxNameBytes) : Len(as_bytes(t)) <= MaxNameBytes }

----------------------------------------------------------------------------
(* Loader *)

Init ==
    /\ fileExists \in BOOLEAN
    /\ orig \in Archives
    /\ file \in { SubSeq(orig, 1, n) : n \in 0..Len(orig) }
    /\ pc = "open"
    /\ sig = <<>>
    /\ count = 0
    /\ dir_loc = 0
    /\ i = 0
    /\ wad = <<>>
    /\ result = NoResult
    /\ reads = 0
    /\ s = <<>>
    /\ nameRes = NoName
    /\ text = NoText

(* line 90 *)
Open ==
    /\ pc = "open"
    /\ IF fileExists
       THEN pc' = "header" /\ UNCHANGED result
       ELSE pc' = "done" /\ result' = Err("FailedToOpenFile")
    /\ UNCHANGED <<fileExists, orig, file, sig, count, dir_loc, i, wad,
                   reads, s, nameRes, text>>

(* lines 91-103 *)
ReadHeader ==
    /\ pc = "header"
    /\ LET r == ReadExact(file, HEADER_SIZE)
       IN  IF r.ok
           THEN LET h == DecodeHeader(r.buf)
                IN  /\ sig' = h.signature
                    /\ count' = h.count
                    /\ dir_loc' = h.dir_loc
                    /\ pc' = "loop"
                    /\ UNCHANGED result
           ELSE /\ result' = OnHeaderError(file)
                /\ pc' = "done"
                /\ UNCHANGED <<sig, count, dir_loc>>
    /\ i' = 0
    /\ wad' = <<>>
    /\ UNCHANGED <<fileExists, orig, file, reads, s, nameRes, text>>

(* lines 112-133: one iteration of the loop.  When the offset overflows *)
(* a build with overflow checks panics and one without wraps around.   *)
ReadEntry ==
    /\ pc = "loop"
    /\ LtU64(AsU64(i), LoopBound(count))
    /\ LET off == EntryOffset(i, dir_loc)
           r == ReadExactAt(file, off.val, ENTRY_SIZE)
       IN  \/ /\ off.overflow
              /\ result' = Err("panic: attempt to add with overflow")
              /\ pc' = "done"
              /\ UNCHANGED <<i, wad, reads>>
           \/ /\ reads' = reads + 1
              /\ IF r.ok
                 THEN /\ wad' = Append(wad, DecodeEntry(r.buf))
                      /\ i' = i + 1
                      /\ UNCHANGED <<pc, result>>
                 ELSE /\ result' = OnReadError(wad)
                      /\ pc' = "done"
                      /\ UNCHANGED <<i, wad>>
    /\ UNCHANGED <<fileExists, orig, file, sig, count, dir_loc, s, nameRes,
                   text>>

(* line 134 *)
ReturnOk ==
    /\ pc = "loop"
    /\ ~LtU64(AsU64(i), LoopBound(count))
    /\ result' = Ok(wad)
    /\ pc' = "done"
    /\ UNCHANGED <<fileExists, orig, file, sig, count, dir_loc, i, wad,
                   reads, s, nameRes, text>>

(* line 145: the caller renders the name of one entry of the catalog *)
RenderName ==
    /\ pc = "done"
    /\ result.tag = "Ok"
    /\ \E k \in 1..Len(result.directory) :
          text' = [set |-> TRUE, buf |-> result.directory[k].name,
                   val |-> to_string(result.directory[k].name)]
    /\ pc' = "shown"
    /\ UNCHANGED <<fileExists, orig, file, sig, count, dir_loc, i, wad,
                   result, reads, s, nameRes>>

Next == Open \/ ReadHeader \/ ReadEntry \/ ReturnOk \/ RenderName

Spec == Init /\ [][Next]_vars

----------------------------------------------------------------------------
(* LumpName conversions on their own *)

InitName ==
    /\ s \in Strings
    /\ nameRes = NoName
    /\ text = NoText
    /\ pc = "from_string"
    /\ fileExists = FALSE
    /\ orig = <<>>
    /\ file = <<>>
    /\ sig = <<>>
    /\ count = 0
    /\ dir_loc = 0
    /\ i = 0
    /\ wad = <<>>
    /\ result = NoResult
    /\ reads = 0

(* lines 15-25 *)
NameFromString ==
    /\ pc = "from_string"
    /\ LET r == from_string(s)
       IN  /\ nameRes' = [set |-> TRUE, ok |-> r.ok, err |-> r.err,
                          buf |-> r.buf]
           /\ pc' = IF r.ok THEN "to_string" ELSE "done"
    /\ UNCHANGED <<fileExists, orig, file, sig, count, dir_loc, i, wad,
                   result, reads, s, text>>

(* lines 27-33 *)
NameToString ==
    /\ pc = "to_string"
    /\ text' = [set |-> TRUE, buf |-> nameRes.buf,
                val |-> to_string(nameRes.buf)]
    /\ pc' = "done"
    /\ UNCHANGED <<fileExists, orig, file, sig, count, dir_loc, i, wad,
                   result, reads, s, nameRes>>

NextName == NameFromString \/ NameToString

NameSpec == InitName /\ [][NextName]_vars

----------------------------------------------------------------------------
(* Vocabulary of the properties *)

Finished == pc \in { "done", "shown" }

(* The i32 stored little-endian in the four bytes of f after position p. *)
FieldAt(f, p) ==
    LET top == IF f[p + 4] < 128 THEN f[p + 4] ELSE f[p + 4] - 256
    IN  16777216 * top + 65536 * f[p + 3] + 256 * f[p + 2] + f[p + 1]

HeaderCount(f) == FieldAt(f, 4)

HeaderDirLoc(f) == FieldAt(f, 8)

(* Header present, count = n >= 0, offset D >= 0, and the n records at *)
(* D .. D + 16n inside the file.                                        *)
ValidArchive(f) ==
    /\ Len(f) >= 12
    /\ HeaderCount(f) >= 0
    /\ HeaderDirLoc(f) >= 0
    /\ HeaderCount(f) <= Len(f) \div 16
    /\ HeaderDirLoc(f) <= Len(f) - 16 * HeaderCount(f)

Chars(str) == { str[j] : j \in 1..Len(str) }

Utf8Len(c) == IF c < 128 THEN 1 ELSE IF c < 2048 THEN 2
              ELSE IF c < 65536 THEN 3 ELSE 4

RECURSIVE ByteLen(_)
ByteLen(str) == IF str = <<>> THEN 0 ELSE Utf8Len(Head(str)) + ByteLen(Tail(str))

----------------------------------------------------------------------------
(* C1: on a valid archive (count = n >= 0, offset D >= 0, the n records  *)
(* inside the file) the load succeeds with exactly n entries, and entry  *)
(* j is decoded from the 16 file bytes at D + 16j: start and size are    *)
(* the little-endian i32 at bytes 0..4 and 4..8, name is bytes 8..16.    *)
C1_DirectoryMatchesFile ==
    (fileExists /\ ValidArchive(file) /\ Finished) =>
        /\ result.tag = "Ok"
        /\ Len(result.directory) = HeaderCount(file)
        /\ \A j \in 0..(HeaderCount(file) - 1) :
              LET e == result.directory[j + 1]
                  base == HeaderDirLoc(file) + 16 * j
              IN  /\ e.start = FieldAt(file, base)
                  /\ e.size = FieldAt(file, base + 4)
                  /\ e.name = [m \in 1..8 |-> file[base + 8 + m]]

C1_Witness ==
    /\ pc = "done"
    /\ ValidArchive(file)
    /\ result.tag = "Ok"
    /\ Len(result.directory) = 2
    /\ result.directory[1].start = 12
    /\ result.directory[1].name = << 69, 49, 77, 49, 0, 0, 0, 0 >>
    /\ result.directory[2].start = -1
    /\ result.directory[2].size = 16909060

(* C2: for every text s of at most 8 UTF-8 bytes without NUL,            *)
(* from_string(s) succeeds and from_string(s).to_string() = s; the zero  *)
(* padding of a shorter s does not show.                                 *)
C2_RoundTrip ==
    (ByteLen(s) <= 8 /\ 0 \notin Chars(s)) =>
        /\ nameRes.set => nameRes.ok
        /\ pc = "done" => (text.set /\ text.val = s)

C2_Witness ==
    /\ pc = "done"
    /\ s = << 65, 233, 8364 >>
    /\ nameRes.buf = << 65, 195, 169, 226, 130, 172, 0, 0 >>
    /\ text.val = s

(* C3: from_string(s) fails with TooLarge exactly when the byte length   *)
(* of s exceeds 8; otherwise the buffer is the bytes of s, left-aligned, *)
(* followed by zeros up to 8 bytes.                                      *)
C3_TooLargeIffOver8Bytes ==
    nameRes.set =>
        /\ (~nameRes.ok) <=> (ByteLen(s) > 8)
        /\ ~nameRes.ok => nameRes.err = "TooLarge"
        /\ nameRes.ok =>
              /\ Len(nameRes.buf) = 8
              /\ \A j \in 1..8 :
                    nameRes.buf[j] =
                       IF j <= ByteLen(s) THEN as_bytes(s)[j] ELSE 0

C3_Witness ==
    /\ s = << 8364, 233, 8364 >>
    /\ nameRes.set
    /\ nameRes.ok
    /\ nameRes.buf = << 226, 130, 172, 195, 169, 226, 130, 172 >>

(* C4 as stated: a valid archive truncated to any length that leaves the *)
(* last directory record incomplete fails with FailedToReadDirectory.    *)
C4_AnyTruncation ==
    (/\ fileExists
     /\ ValidArchive(orig)
     /\ HeaderCount(orig) >= 1
     /\ Len(file) < HeaderDirLoc(orig) + 16 * HeaderCount(orig)
     /\ Finished) =>
        result = Err("FailedToReadDirectory")

(* C4 amended: a valid archive truncated so that the last directory      *)
(* record is incomplete while at least the 12 header bytes remain fails  *)
(* with FailedToReadDirectory.                                           *)
C4_TruncationKeepingHeader ==
    (/\ fileExists
     /\ ValidArchive(orig)
     /\ HeaderCount(orig) >= 1
     /\ Len(file) < HeaderDirLoc(orig) + 16 * HeaderCount(orig)
     /\ Len(file) >= 12
     /\ Finished) =>
        result = Err("FailedToReadDirectory")

C4_Witness ==
    /\ pc = "done"
    /\ ValidArchive(orig)
    /\ HeaderCount(orig) = 2
    /\ Len(file) = HeaderDirLoc(orig) + 31
    /\ Len(wad) = 1
    /\ reads = 2
    /\ result = Err("FailedToReadDirectory")

(* C5: a failed load surfaces no entries, also when entries 0..k-1 were  *)
(* already decoded; a Wad is returned only after all count entries have  *)
(* been read.                                                            *)
C5_NoPartialCatalog ==
    Finished =>
        /\ result.tag \in { "Ok", "Err" }
        /\ result.tag = "Err" => result.directory = <<>>
        /\ result.tag = "Ok" =>
              /\ count >= 0
              /\ Len(result.directory) = count
              /\ reads = count
        /\ (Len(wad) < count \/ count < 0) => result.tag = "Err"

C5_Witness ==
    /\ pc = "done"
    /\ Len(wad) = 1
    /\ count = 2
    /\ result.tag = "Err"
    /\ result.err = "FailedToReadDirectory"
    /\ result.directory = <<>>

(* C6: every entry of a returned Wad has real_size = size and kind,      *)
(* compression and padding zero, whatever the file holds.                *)
C6_ReservedFields ==
    result.tag = "Ok" =>
        \A j \in 1..Len(result.directory) :
            LET e == result.directory[j]
            IN  /\ e.real_size = e.size
                /\ e.kind = 0
                /\ e.compression = 0
                /\ e.padding = 0

C6_Witness ==
    /\ result.tag = "Ok"
    /\ Len(result.directory) = 2
    /\ result.directory[1].size = 4
    /\ result.directory[2].size = I32_MIN
    /\ result.directory[2].real_size = I32_MIN

(* C7: on every file shorter than 12 bytes the load fails with           *)
(* FailedToReadHeader and makes no directory read.                       *)
C7_ShortHeader ==
    (fileExists /\ Len(file) < 12) =>
        /\ reads = 0
        /\ Finished => result = Err("FailedToReadHeader")

C7_Witness ==
    /\ pc = "done"
    /\ fileExists
    /\ ValidArchive(orig)
    /\ HeaderCount(orig) = 1
    /\ Len(file) = 11
    /\ result = Err("FailedToReadHeader")

(* C8: to_string removes only the maximal run of NULs at the end of the  *)
(* decoded 8 bytes and keeps NULs at the start and in the interior.      *)
C8_StripsTrailingOnly ==
    text.set =>
        text.val = trim_end_matches(from_utf8_lossy(text.buf), 0)

(* C9: a negative header count passes the header stage, and the load     *)
(* then either makes no directory iteration and returns an empty         *)
(* catalog or fails with FailedToReadDirectory; the catalog returned is  *)
(* never non-empty.                                                      *)
C9_NegativeCount ==
    (fileExists /\ Len(file) >= 12 /\ HeaderCount(file) < 0) =>
        /\ pc \notin { "open", "header" } => count = HeaderCount(file)
        /\ result.directory = <<>>
        /\ Finished =>
              \/ result = Ok(<<>>) /\ reads = 0
              \/ result = Err("FailedToReadDirectory")

C9_Witness ==
    /\ pc = "done"
    /\ count = -1
    /\ dir_loc = 12
    /\ Len(wad) = 2
    /\ reads = 3
    /\ result = Err("FailedToReadDirectory")

(* No offset overflow in a reached iteration, no panic, bounded reads. *)
C10_Safe ==
    /\ (pc = "loop" /\ LtU64(AsU64(i), AsU64(count))) =>
           ~EntryOffset(i, dir_loc).overflow
    /\ result.tag = "Err" =>
           result.err \in { "FailedToOpenFile", "FailedToReadHeader",
                            "FailedToReadDirectory" }
    /\ reads <= Len(file) \div 16 + 1

(* Steps the load can still take: strictly smaller after every step. *)
Rank ==
    (CASE pc = "open" -> 4 [] pc = "header" -> 3 [] pc = "loop" -> 2
       [] pc = "done" -> 1 [] OTHER -> 0)
    + (Len(file) \div 16 + 1 - reads)

(* C10: in every iteration reached, i*16 + dir_loc stays below 2^64 (no  *)
(* overflow panic), at most floor(file length / 16) + 1 directory reads  *)
(* are made, and the loop terminates: the number of steps left, bounded  *)
(* by that number of reads, decreases with every step.                   *)
C10_LoopTerminates == []C10_Safe /\ [][Rank' < Rank]_vars

C10_Witness ==
    /\ pc = "done"
    /\ count = I32_MIN
    /\ dir_loc = 0
    /\ Len(file) = 45
    /\ reads = 3
    /\ result = Err("FailedToReadDirectory")

====
